---- MODULE Spec2Model ----
(***************************************************************************)
(* Price Inconsistency Checker (src/app.py): a Streamlit script that reads *)
(* a pipe-separated feed, keeps the fully approved rows, flags the         *)
(* COLOR_IDs whose prices differ or are missing, and writes two workbooks  *)
(* named after the selected country.  Every browser session runs the       *)
(* script on its own thread; the workbooks are files in the server's       *)
(* working directory, shared by all sessions.                              *)
(*                                                                         *)
(* Text is a TLA+ string.  A table cell is a tuple: NaN (the empty tuple)  *)
(* for a missing value, <<v>> for a value v.                               *)
(***************************************************************************)
EXTENDS Integers, Sequences, FiniteSets, TLC

\* ------------------------------------------------------------ bounds
MaxRows == 3
NumSessions == 2

Sessions == 1..NumSessions

\* ------------------------------------------------- sequence helpers
\* The rows of seq whose index is in keep, in their original order
\* (a pandas boolean mask).
Filter(seq, keep) ==
    LET idx == {i \in 1..Len(seq) : i \in keep}
        nth(j) == CHOOSE i \in idx : Cardinality({m \in idx : m < i}) = j - 1
    IN  [j \in 1..Cardinality(idx) |-> seq[nth(j)]]

Range(seq) == {seq[i] : i \in 1..Len(seq)}

\* ------------------------------------------------------------- cells
NaN == <<>>
Val(v) == <<v>>

\* pandas' default na_values: these texts are read as NaN.
na_values == {"", "NA", "N/A", "NaN", "nan", "null", "NULL", "None", "n/a", "#N/A"}

\* pd.read_csv(..., dtype=str) on one field.
ReadCell(text) == IF text \in na_values THEN NaN ELSE Val(text)

\* pd.read_csv(file, delimiter="|", dtype=str): the header becomes the
\* columns, every field is read as text or NaN.
read_csv(f) ==
    [columns |-> f.header,
     data    |-> [i \in 1..Len(f.rows) |->
                    [c \in f.header |-> ReadCell(f.rows[i][c])]]]

\* ------------------------------------------------- country selection
country_options ==
    [Colombia |-> "CO", Mexico |-> "MX", Chile |-> "CL",
     Argentina |-> "AR", Brasil |-> "BR"]

Countries == DOMAIN country_options

price_list_prefix(country) == country_options[country] \o "PriceList"

price_impex_path(country) == price_list_prefix(country) \o "_Price_Impex.xlsx"

reason_report_path(country) == price_list_prefix(country) \o "_Price_Issues.xlsx"

\* ------------------------------------------------- schema validation
required_columns ==
    {"PID", "COLOR_ID", "CONSUMERPRICE",
     "BASE_APPROVED", "COLOR_APPROVED", "SKU_APPROVED", "ECOM_ENABLED"}

\* A bug the error message could have: the difference the wrong way round.
MissingColumnsReversed(columns) == columns \ required_columns

\* required_columns - set(df.columns)
MissingColumns(columns) == required_columns \ columns

\* required_columns.issubset(df.columns)
SchemaOk(columns) == required_columns \subseteq columns

\* ---------------------------------------------- approval normalization
approval_columns == {"BASE_APPROVED", "COLOR_APPROVED", "SKU_APPROVED", "ECOM_ENABLED"}

Whitespace == {" ", "\t"}

UpperCase == "ABCDEFGHIJKLMNOPQRSTUVWXYZ"
LowerCase == "abcdefghijklmnopqrstuvwxyz"

\* The lower-case letter of every upper-case letter.
LowerOf ==
    [c \in {SubSeq(UpperCase, i, i) : i \in 1..Len(UpperCase)} |->
        LET i == CHOOSE k \in 1..Len(UpperCase) : SubSeq(UpperCase, k, k) = c
        IN  SubSeq(LowerCase, i, i)]

LowerChar(c) == IF c \in DOMAIN LowerOf THEN LowerOf[c] ELSE c

RECURSIVE lower(_)
\* str.lower()
lower(s) == IF s = "" THEN "" ELSE LowerChar(Head(s)) \o lower(Tail(s))

RECURSIVE lstrip(_)
lstrip(s) == IF s # "" /\ Head(s) \in Whitespace THEN lstrip(Tail(s)) ELSE s

RECURSIVE rstrip(_)
rstrip(s) ==
    IF s # "" /\ SubSeq(s, Len(s), Len(s)) \in Whitespace
    THEN rstrip(SubSeq(s, 1, Len(s) - 1))
    ELSE s

\* str.strip()
strip(s) == rstrip(lstrip(s))

\* str(x): the text of a cell; a missing cell prints as "nan".
str(cell) == IF cell = NaN THEN "nan" ELSE cell[1]

\* A bug the approval test could have: comparing without strip().
ApprovalNoStrip(cell) == lower(str(cell)) = "true"

\* lambda x: str(x).strip().lower() == "true"
Approval(cell) == lower(strip(str(cell))) = "true"

\* ------------------------------------------------- price normalization
\* The texts of the model that parse as numbers, with their values.
NumericValue == ("10" :> 10) @@ ("10.0" :> 10) @@ ("12" :> 12)

\* pd.to_numeric(..., errors='coerce') on one cell.
to_numeric(cell) ==
    IF cell = NaN THEN NaN
    ELSE IF cell[1] \in DOMAIN NumericValue THEN Val(NumericValue[cell[1]])
    ELSE NaN

\* Lines 30-35: the approval columns become booleans, the price a number.
Normalize(row) ==
    [c \in DOMAIN row |->
        IF c \in approval_columns THEN Approval(row[c])
        ELSE IF c = "CONSUMERPRICE" THEN to_numeric(row[c])
        ELSE row[c]]

NormalizeTable(data) == [i \in 1..Len(data) |-> Normalize(data[i])]

\* ---------------------------------------------------- eligibility filter
\* A bug the filter could have: keeping a row when any flag is true.
AllApprovedAny(row) == \E c \in approval_columns : row[c]

\* df[approval_columns].all(axis=1) on one row.
AllApproved(row) == \A c \in approval_columns : row[c]

\* A bug the filter could have: keeping every row of a COLOR_ID that has a
\* fully approved row (a filter of groups instead of rows).
ApprovedGroups(data) ==
    Filter(data, {i \in 1..Len(data) :
                    \E j \in 1..Len(data) :
                        /\ AllApproved(data[j])
                        /\ data[j]["COLOR_ID"] = data[i]["COLOR_ID"]})

\* approved_colors = df[df[approval_columns].all(axis=1)]
ApprovedRows(data) == Filter(data, {i \in 1..Len(data) : AllApproved(data[i])})

\* ------------------------------------------------ inconsistency detector
\* The CONSUMERPRICE cells of the rows of one COLOR_ID (one group of
\* groupby("COLOR_ID")).
GroupPrices(data, color) ==
    LET g == Filter(data, {i \in 1..Len(data) : data[i]["COLOR_ID"] = color})
    IN  [i \in 1..Len(g) |-> g[i]["CONSUMERPRICE"]]

\* A bug nunique could have: counting NaN as a value (dropna=False).
nuniqueWithNaN(prices) == Cardinality(Range(prices))

\* Series.nunique(): the number of distinct values, NaN not counted.
nunique(prices) == Cardinality(Range(prices) \ {NaN})

\* Series.isna().any()
isna_any(prices) == NaN \in Range(prices)

\* A bug the detector could have: forgetting the missing prices.
IsInconsistentNoNaN(prices) == nunique(prices) > 1

\* lambda x: x["CONSUMERPRICE"].nunique() > 1 or x["CONSUMERPRICE"].isna().any()
IsInconsistent(prices) == nunique(prices) > 1 \/ isna_any(prices)

\* approved_colors.groupby("COLOR_ID").filter(...): groupby leaves out the
\* rows whose key is NaN, filter keeps the rows of the groups that pass, in
\* their original order.
GroupbyFilter(data) ==
    Filter(data, {i \in 1..Len(data) :
                    /\ data[i]["COLOR_ID"] # NaN
                    /\ IsInconsistent(GroupPrices(data, data[i]["COLOR_ID"]))})

\* The label of one group (lines 48-50).
IssueLabel(prices) ==
    IF isna_any(prices) /\ nunique(prices) > 1 THEN "No Price and Different Price"
    ELSE IF isna_any(prices) THEN "No Price"
    ELSE "Different Price"

\* inconsistent_prices["Issue"] = groupby("COLOR_ID")["CONSUMERPRICE"].transform(...)
WithIssue(data) ==
    [i \in 1..Len(data) |->
        [c \in DOMAIN data[i] \cup {"Issue"} |->
            IF c = "Issue"
            THEN Val(IssueLabel(GroupPrices(data, data[i]["COLOR_ID"])))
            ELSE data[i][c]]]

\* ---------------------------------------------------------- report builder
OutputColumns ==
    <<"PRICE_LIST", "PID", "COLOR_ID", "CONSUMERPRICE", "Issue",
      "CURRENCY_CODE", "SCALE", "UNIT_FACTOR", "PRICE_START", "PRICE_END">>

\* A bug the prefix could have: the bare country code.
PriceListCode(country) == country_options[country]

\* The value of the PRICE_LIST column (line 54).
PriceList(country) == price_list_prefix(country)

\* Lines 53-59: the projection of one labelled row.
OutputRow(row, country) ==
    [c \in Range(OutputColumns) |->
        IF c = "PRICE_LIST" THEN Val(PriceList(country))
        ELSE IF c \in {"PID", "COLOR_ID", "CONSUMERPRICE", "Issue"} THEN row[c]
        ELSE Val("")]

\* output_df, from the labelled rows.
BuildOutput(data, country) ==
    [i \in 1..Len(data) |-> OutputRow(data[i], country)]

\* DataFrame.drop(columns=[...]) / DataFrame[[...]]: columns in order.
DropColumns(columns, dropped) ==
    Filter(columns, {i \in 1..Len(columns) : columns[i] \notin dropped})

PlaceholderColumns ==
    {"CURRENCY_CODE", "SCALE", "UNIT_FACTOR", "PRICE_START", "PRICE_END"}

\* A workbook cell: NaN and the empty text (the placeholder columns hold
\* it) are both written as a blank cell.
ExcelCell(column, cell) ==
    IF column \in PlaceholderColumns /\ cell = Val("") THEN NaN ELSE cell

\* DataFrame.to_excel(writer, index=False, sheet_name=...): the workbook
\* holds one sheet with the header and one line per row.
to_excel(columns, data, sheet_name) ==
    [sheet   |-> sheet_name,
     columns |-> columns,
     data    |-> [i \in 1..Len(data) |->
                    [c \in Range(columns) |-> ExcelCell(c, data[i][c])]]]

\* output_df.drop(columns=["Issue"]).to_excel(..., sheet_name="Price Impex")
ImpexWorkbook(out) ==
    to_excel(DropColumns(OutputColumns, {"Issue"}), out, "Price Impex")

\* output_df.to_excel(..., sheet_name="Price Issues")
IssuesWorkbook(out) == to_excel(OutputColumns, out, "Price Issues")

\* st.dataframe(output_df[["PID", "COLOR_ID", "CONSUMERPRICE", "Issue"]])
SummaryTable(out) ==
    [i \in 1..Len(out) |->
        [c \in {"PID", "COLOR_ID", "CONSUMERPRICE", "Issue"} |-> out[i][c]]]

\* ------------------------------------------------------------------ state
VARIABLES
    pc,                  \* where each session's script run stands
    file,                \* the uploaded file of each session (header, rows)
    selected_country,    \* the country selected in each session
    df,                  \* the table of the run, as read and then normalized
    approved_colors,     \* the fully approved rows
    inconsistent_prices, \* the rows of the flagged COLOR_IDs
    output_df,           \* the report table
    disk,                \* the files of the working directory: path -> workbook
    ui                   \* what each session's page shows

vars ==
    <<pc, file, selected_country, df, approved_colors, inconsistent_prices,
      output_df, disk, ui>>

NoFile == [header |-> {}, rows |-> <<>>]
NoTable == [columns |-> {}, data |-> <<>>]
EmptyPage ==
    [error |-> NaN, info |-> FALSE, downloads |-> <<>>, dataframe |-> NaN,
     success |-> FALSE]

\* ----------------------------------------------------------------- inputs
\* The texts of one row of a file, by column.
RawRow(pid, color, price, flags) ==
    [c \in required_columns |->
        IF c = "PID" THEN pid
        ELSE IF c = "COLOR_ID" THEN color
        ELSE IF c = "CONSUMERPRICE" THEN price
        ELSE flags[c]]

Pid(i) == "P" \o ToString(i)

FullApproval ==
    [BASE_APPROVED |-> "True", COLOR_APPROVED |-> " true ",
     SKU_APPROVED |-> "TRUE", ECOM_ENABLED |-> "true"]

PartApproval == [FullApproval EXCEPT !["ECOM_ENABLED"] = "false"]

\* The feed whose i-th row has PID Pi and the color, the price text and the
\* approval texts of shape[i].
Feed(shape) ==
    [i \in 1..Len(shape) |-> RawRow(Pid(i), shape[i][1], shape[i][2], shape[i][3])]

\* The shapes of feeds of at most MaxRows rows over the given texts.
Shapes(k, colors, prices, approvals) == [1..k -> colors \X prices \X approvals]

Upload(country, header, rows) ==
    [country |-> country, file |-> [header |-> header, rows |-> rows]]

AllColumns == required_columns \cup {"EXTRA"}

\* The one row of the files that try every header.
HeaderRow(header) ==
    [c \in header |->
        IF c \in required_columns
        THEN RawRow("P1", "A", "", FullApproval)[c]
        ELSE "x"]

Tokens == {"True", " true ", "TRUE", "\ttRuE", "false", "1", "yes", "", "t rue"}

\* Two feeds with flagged rows, one without, and one without a price column.
SharedUploads ==
    {Upload(c, f.header, f.rows) :
        c \in {"Colombia", "Mexico"},
        f \in {[header |-> required_columns,
                 rows |-> <<RawRow("P1", "A", "", FullApproval)>>],
                [header |-> required_columns,
                 rows |-> <<RawRow("P1", "B", "10", FullApproval),
                            RawRow("P2", "B", "12", FullApproval)>>],
                [header |-> required_columns,
                 rows |-> <<RawRow("P1", "A", "10", FullApproval)>>],
                [header |-> required_columns \ {"CONSUMERPRICE"},
                 rows |-> <<>>]}}

\* The state once the sessions in `ready` have uploaded a file and selected a
\* country; a session without a file never reaches line 20.
Start(upload, ready) ==
    /\ pc = [s \in Sessions |-> IF s \in ready THEN "ready" ELSE "nofile"]
    /\ file = [s \in Sessions |-> IF s \in ready THEN upload[s].file ELSE NoFile]
    /\ selected_country =
          [s \in Sessions |-> IF s \in ready THEN upload[s].country ELSE "Colombia"]
    /\ df = [s \in Sessions |-> NoTable]
    /\ approved_colors = [s \in Sessions |-> <<>>]
    /\ inconsistent_prices = [s \in Sessions |-> <<>>]
    /\ output_df = [s \in Sessions |-> <<>>]
    /\ disk = <<>>
    /\ ui = [s \in Sessions |-> EmptyPage]

StartOne(upload) == Start([s \in Sessions |-> upload], {1})

\* One session runs the script, on
\*  - a feed of two colors with equal, different and missing prices, every
\*    row fully approved or not; or
\*  - for every country, a feed of fully approved rows whose COLOR_ID may be
\*    missing and whose price may be written in two ways or be no number; or
\*  - a file of one row under every header over the required columns and one
\*    more; or
\*  - one row with a missing price and every choice of approval texts.
Init ==
    \/ \E k \in 0..MaxRows :
          \E sh \in Shapes(k, {"A", "B"}, {"10", "12", ""},
                           {FullApproval, PartApproval}) :
              StartOne(Upload("Colombia", required_columns, Feed(sh)))
    \/ \E c \in Countries, k \in 0..MaxRows :
          \E sh \in Shapes(k, {"A", "NA"}, {"10", "10.0", "abc"}, {FullApproval}) :
              StartOne(Upload(c, required_columns, Feed(sh)))
    \/ \E h \in SUBSET AllColumns :
          StartOne(Upload("Mexico", h, <<HeaderRow(h)>>))
    \/ \E f \in [approval_columns -> Tokens] :
          StartOne(Upload("Chile", required_columns, <<RawRow("P1", "A", "", f)>>))

\* Every session runs the script, on files of its own.
InitShared == \E u \in [Sessions -> SharedUploads] : Start(u, Sessions)

\* ----------------------------------------------------------------- actions
\* Lines 19-28: "Run Analysis" is pressed on an uploaded file; the file is
\* read and its columns are checked.  With a required column missing the
\* page shows the error and the script stops.
RunAnalysis(s) ==
    /\ pc[s] = "ready"
    /\ LET t == read_csv(file[s])
       IN  IF SchemaOk(t.columns)
           THEN /\ df' = [df EXCEPT ![s] = t]
                /\ pc' = [pc EXCEPT ![s] = "validated"]
                /\ ui' = ui
           ELSE /\ ui' = [ui EXCEPT ![s].error = Val(MissingColumns(t.columns))]
                /\ pc' = [pc EXCEPT ![s] = "stopped"]
                /\ df' = df
    /\ UNCHANGED <<file, selected_country, approved_colors, inconsistent_prices,
                   output_df, disk>>

\* Lines 30-43: normalization, the approval filter and the detector.
Analyze(s) ==
    /\ pc[s] = "validated"
    /\ df' = [df EXCEPT ![s].data = NormalizeTable(df[s].data)]
    /\ approved_colors' = [approved_colors EXCEPT ![s] = ApprovedRows(df'[s].data)]
    /\ inconsistent_prices' =
           [inconsistent_prices EXCEPT ![s] = GroupbyFilter(approved_colors'[s])]
    /\ pc' = [pc EXCEPT ![s] = "analyzed"]
    /\ UNCHANGED <<file, selected_country, output_df, disk, ui>>

\* A bug the emptiness test could have: one row taken for none.
IsEmptyOffByOne(data) == Len(data) <= 1

\* inconsistent_prices.empty
IsEmpty(data) == Len(data) = 0

\* Lines 46-63: the flagged rows are labelled and projected.
Prepare(s) ==
    /\ pc[s] = "analyzed"
    /\ ~IsEmpty(inconsistent_prices[s])
    /\ inconsistent_prices' =
           [inconsistent_prices EXCEPT ![s] = WithIssue(inconsistent_prices[s])]
    /\ output_df' =
           [output_df EXCEPT ![s] =
               BuildOutput(WithIssue(inconsistent_prices[s]), selected_country[s])]
    /\ pc' = [pc EXCEPT ![s] = "prepared"]
    /\ UNCHANGED <<file, selected_country, df, approved_colors, disk, ui>>

\* Lines 80-81: nothing is flagged.
NoInconsistencies(s) ==
    /\ pc[s] = "analyzed"
    /\ IsEmpty(inconsistent_prices[s])
    /\ ui' = [ui EXCEPT ![s].info = TRUE]
    /\ pc' = [pc EXCEPT ![s] = "done"]
    /\ UNCHANGED <<file, selected_country, df, approved_colors,
                   inconsistent_prices, output_df, disk>>

\* Lines 65-66: the impex workbook is written to the working directory.
WriteImpex(s) ==
    /\ pc[s] = "prepared"
    /\ disk' = (price_impex_path(selected_country[s]) :> ImpexWorkbook(output_df[s]))
                @@ disk
    /\ pc' = [pc EXCEPT ![s] = "wrote_impex"]
    /\ UNCHANGED <<file, selected_country, df, approved_colors,
                   inconsistent_prices, output_df, ui>>

\* Lines 67-68: the issues workbook is written to the working directory.
WriteIssues(s) ==
    /\ pc[s] = "wrote_impex"
    /\ disk' = (reason_report_path(selected_country[s]) :> IssuesWorkbook(output_df[s]))
                @@ disk
    /\ pc' = [pc EXCEPT ![s] = "wrote_issues"]
    /\ UNCHANGED <<file, selected_country, df, approved_colors,
                   inconsistent_prices, output_df, ui>>

\* Lines 71-72: the impex file is opened and read into a download button.
OfferImpex(s) ==
    /\ pc[s] = "wrote_issues"
    /\ LET path == price_impex_path(selected_country[s])
       IN  ui' = [ui EXCEPT ![s].downloads =
                     Append(@, [label |-> "Download Price Impex File",
                                file_name |-> path, data |-> disk[path]])]
    /\ pc' = [pc EXCEPT ![s] = "offered_impex"]
    /\ UNCHANGED <<file, selected_country, df, approved_colors,
                   inconsistent_prices, output_df, disk>>

\* Lines 73-79: the issues file is read into a download button, then the
\* summary table and the success message are shown.
OfferIssues(s) ==
    /\ pc[s] = "offered_impex"
    /\ LET path == reason_report_path(selected_country[s])
       IN  ui' = [ui EXCEPT ![s].downloads =
                     Append(@, [label |-> "Download Price Issue Report",
                                file_name |-> path, data |-> disk[path]]),
                            ![s].dataframe = Val(SummaryTable(output_df[s])),
                            ![s].success = TRUE]
    /\ pc' = [pc EXCEPT ![s] = "done"]
    /\ UNCHANGED <<file, selected_country, df, approved_colors,
                   inconsistent_prices, output_df, disk>>

Next ==
    \E s \in Sessions :
        \/ RunAnalysis(s)
        \/ Analyze(s)
        \/ Prepare(s)
        \/ NoInconsistencies(s)
        \/ WriteImpex(s)
        \/ WriteIssues(s)
        \/ OfferImpex(s)
        \/ OfferIssues(s)

Spec == Init /\ [][Next]_vars

SpecShared == InitShared /\ [][Next]_vars

\* ------------------------------------------------------------- properties
\* The positions of a run after the normalization, the filter and the
\* detector, and those after the report table is built.
AfterAnalysis ==
    {"analyzed", "prepared", "wrote_impex", "wrote_issues", "offered_impex", "done"}

AfterPrepare == {"prepared", "wrote_impex", "wrote_issues", "offered_impex"}

Reported(s) == pc[s] \in AfterPrepare \/ (pc[s] = "done" /\ ui[s].success)

Alone(s) == \A t \in Sessions \ {s} : pc[t] = "nofile"

\* The COLOR_IDs of the feed of session s.
ColorsOf(s) == {df[s].data[i]["COLOR_ID"] : i \in 1..Len(df[s].data)} \ {NaN}

\* The rows of the normalized feed with COLOR_ID c, and those among them
\* with all four approval flags true.
Members(s, c) == {i \in 1..Len(df[s].data) : df[s].data[i]["COLOR_ID"] = c}

Eligible(s, c) ==
    {i \in Members(s, c) :
        /\ df[s].data[i]["BASE_APPROVED"]
        /\ df[s].data[i]["COLOR_APPROVED"]
        /\ df[s].data[i]["SKU_APPROVED"]
        /\ df[s].data[i]["ECOM_ENABLED"]}

PricesAt(s, rows) == {df[s].data[i]["CONSUMERPRICE"] : i \in rows}

\* The PIDs of the report rows of COLOR_ID c.
ReportedPids(s, c) ==
    {inconsistent_prices[s][j]["PID"] :
        j \in {k \in 1..Len(inconsistent_prices[s]) :
                  inconsistent_prices[s][k]["COLOR_ID"] = c}}

LabelOf(prices) ==
    LET missing == NaN \in prices
        distinct == Cardinality(prices \ {NaN})
    IN  IF missing /\ distinct >= 2 THEN "No Price and Different Price"
        ELSE IF missing THEN "No Price"
        ELSE "Different Price"

\* The prices of the report rows of the COLOR_ID of report row j.
ReportPrices(s, j) ==
    {inconsistent_prices[s][k]["CONSUMERPRICE"] :
        k \in {m \in 1..Len(inconsistent_prices[s]) :
                  inconsistent_prices[s][m]["COLOR_ID"] =
                      inconsistent_prices[s][j]["COLOR_ID"]}}

\* C2: every report row carries the label of its COLOR_ID's group: "No Price
\* and Different Price" with a missing price and two or more distinct
\* non-missing prices, else "No Price" with a missing price, else "Different
\* Price"; so prices {10, missing} give "No Price" and {10, missing, 12} give
\* "No Price and Different Price" on every row of the group.
C2_IssueLabel ==
    \A s \in Sessions :
        Reported(s) =>
            /\ Len(output_df[s]) = Len(inconsistent_prices[s])
            /\ \A j \in 1..Len(output_df[s]) :
                  LET prices == ReportPrices(s, j)
                  IN  /\ output_df[s][j]["Issue"] = Val(LabelOf(prices))
                      /\ inconsistent_prices[s][j]["Issue"] = Val(LabelOf(prices))
                      /\ prices = {Val(10), NaN} =>
                            output_df[s][j]["Issue"] = Val("No Price")
                      /\ prices = {Val(10), Val(12)} =>
                            output_df[s][j]["Issue"] = Val("Different Price")
                      /\ prices = {Val(10), NaN, Val(12)} =>
                            output_df[s][j]["Issue"] = Val("No Price and Different Price")

\* A report with a group of prices 10, missing and 12 labelled "No Price and
\* Different Price" on a row that has a price.
C2_Witness ==
    \E s \in Sessions :
        /\ Reported(s)
        /\ \E j \in 1..Len(output_df[s]) :
              /\ output_df[s][j]["CONSUMERPRICE"] # NaN
              /\ output_df[s][j]["Issue"] = Val("No Price and Different Price")
              /\ ReportPrices(s, j) = {Val(10), NaN, Val(12)}

\* C3: a run on a header that lacks a required column stops at the schema
\* check: the error names exactly the required columns the header lacks,
\* nothing is normalized, filtered or grouped, and no artifact, no summary
\* and no "no inconsistencies" signal is ever produced.
C3_SchemaHalt ==
    \A s \in Sessions :
        (pc[s] \notin {"nofile", "ready"}
         /\ ~(required_columns \subseteq file[s].header)) =>
            /\ pc[s] = "stopped"
            /\ ui[s].error =
                  Val({c \in required_columns : c \notin file[s].header})
            /\ df[s] = NoTable
            /\ approved_colors[s] = <<>>
            /\ inconsistent_prices[s] = <<>>
            /\ output_df[s] = <<>>
            /\ ui[s].downloads = <<>>
            /\ ui[s].dataframe = NaN
            /\ ~ui[s].info /\ ~ui[s].success
            /\ Alone(s) => disk = <<>>

\* A stopped run whose header lacks two required columns and holds a column
\* that is not required.
C3_Witness ==
    \E s \in Sessions :
        /\ pc[s] = "stopped"
        /\ "EXTRA" \in file[s].header
        /\ ui[s].error = Val({"CONSUMERPRICE", "SKU_APPROVED"})

\* C4: a COLOR_ID none of whose rows has all four approval flags true has
\* no row in the report, whatever its prices are.
C4_NoEligibleNoReport ==
    \A s \in Sessions :
        pc[s] \in AfterAnalysis =>
            \A c \in ColorsOf(s) :
                Eligible(s, c) = {} =>
                    /\ ReportedPids(s, c) = {}
                    /\ \A j \in 1..Len(output_df[s]) :
                          output_df[s][j]["COLOR_ID"] # c

\* A finished run with a report, and a COLOR_ID without a fully approved row
\* whose prices differ.
C4_Witness ==
    \E s \in Sessions :
        /\ pc[s] = "done" /\ ui[s].success
        /\ \E c \in ColorsOf(s) :
              /\ Eligible(s, c) = {}
              /\ {Val(10), Val(12)} \subseteq PricesAt(s, Members(s, c))

\* C5: in a COLOR_ID with at least one fully approved row, consistency is
\* judged over every row of the COLOR_ID, fully approved or not: the group
\* has no row in the report only if every member row has a price and all
\* these prices are equal, and is reported otherwise.
C5_JudgedOverAllMembers ==
    \A s \in Sessions :
        pc[s] \in AfterAnalysis =>
            \A c \in ColorsOf(s) :
                Eligible(s, c) # {} =>
                    LET prices == PricesAt(s, Members(s, c))
                        consistent == NaN \notin prices /\ Cardinality(prices) = 1
                    IN  (ReportedPids(s, c) = {}) <=> consistent

\* The texts that are the token "true" in any letter case.
TrueVariants ==
    {a \o b \o c \o d :
        a \in {"t", "T"}, b \in {"r", "R"}, c \in {"u", "U"}, d \in {"e", "E"}}

IsBlank(text) == \A i \in 1..Len(text) : SubSeq(text, i, i) \in {" ", "\t"}

\* The text is the token "true", in any letter case, between whitespace.
IsTrueToken(text) ==
    \E i \in 0..Len(text) :
        \E j \in i..Len(text) :
            /\ IsBlank(SubSeq(text, 1, i))
            /\ SubSeq(text, i + 1, j) \in TrueVariants
            /\ IsBlank(SubSeq(text, j + 1, Len(text)))

\* The approval texts of the files, and those among them that are true.
ApprovalTexts ==
    Tokens \cup {FullApproval[c] : c \in approval_columns}
           \cup {PartApproval[c] : c \in approval_columns}

TrueTexts == {t \in ApprovalTexts : IsTrueToken(t)}

RawApproved(s, i) == \A c \in approval_columns : file[s].rows[i][c] \in TrueTexts

\* C6: an approval field is true exactly when its text, without the
\* surrounding whitespace and in lower case, is "true"; every other text,
\* the empty one included, gives false; the rows kept as eligible are those
\* whose four fields are all true.
C6_ApprovalTokens ==
    \A s \in Sessions :
        pc[s] \in AfterAnalysis =>
            /\ Len(df[s].data) = Len(file[s].rows)
            /\ \A i \in 1..Len(df[s].data) :
                  \A c \in approval_columns :
                      /\ file[s].rows[i][c] \in ApprovalTexts
                      /\ df[s].data[i][c] = (file[s].rows[i][c] \in TrueTexts)
            /\ approved_colors[s] =
                  Filter(df[s].data, {i \in 1..Len(df[s].data) : RawApproved(s, i)})

\* An eligible row whose approval texts are "True", " true ", "TRUE" and a
\* tab before "tRuE".
C6_Witness ==
    \E s \in Sessions :
        /\ pc[s] \in AfterAnalysis
        /\ Len(approved_colors[s]) = 1
        /\ file[s].rows[1]["BASE_APPROVED"] = "True"
        /\ file[s].rows[1]["COLOR_APPROVED"] = " true "
        /\ file[s].rows[1]["SKU_APPROVED"] = "TRUE"
        /\ file[s].rows[1]["ECOM_ENABLED"] = "\ttRuE"

\* Some COLOR_ID's fully approved rows hold differing or missing prices.
SomeFlagged(s) ==
    \E c \in ColorsOf(s) :
        LET prices == PricesAt(s, Eligible(s, c))
        IN  Cardinality(prices \ {NaN}) > 1 \/ NaN \in prices

\* C7: a run that passed the schema check takes the report branch with a
\* flagged row and the "no inconsistencies" branch with none, and ends in
\* one of two ways: with a flagged row, both workbooks are written and
\* offered, the summary is shown and the "no inconsistencies" signal is not;
\* with none, only that signal is produced and no workbook is written or
\* offered.
C7_TwoOutcomes ==
    \A s \in Sessions :
        /\ pc[s] = "analyzed" =>
              IF SomeFlagged(s)
              THEN ~IsEmpty(inconsistent_prices[s])
              ELSE ENABLED NoInconsistencies(s)
        /\ pc[s] \in AfterAnalysis => (ui[s].info => ui[s].downloads = <<>>)
        /\ pc[s] = "done" =>
              IF SomeFlagged(s)
              THEN /\ ~ui[s].info
                   /\ ui[s].success
                   /\ Len(ui[s].downloads) = 2
                   /\ ui[s].downloads[1].file_name = price_impex_path(selected_country[s])
                   /\ ui[s].downloads[2].file_name = reason_report_path(selected_country[s])
                   /\ ui[s].dataframe # NaN
                   /\ Len(ui[s].dataframe[1]) >= 1
                   /\ {price_impex_path(selected_country[s]),
                        reason_report_path(selected_country[s])} \subseteq DOMAIN disk
              ELSE /\ ui[s].info
                   /\ ~ui[s].success
                   /\ ui[s].downloads = <<>>
                   /\ ui[s].dataframe = NaN
                   /\ output_df[s] = <<>>
                   /\ Alone(s) => disk = <<>>

\* A finished run whose only flagged COLOR_ID has a single report row.
C7_Witness ==
    \E s \in Sessions :
        /\ pc[s] = "done"
        /\ SomeFlagged(s)
        /\ Len(inconsistent_prices[s]) = 1
        /\ Len(ui[s].downloads) = 2

\* C8: the workbooks a run offers for download are those of its own feed
\* and country, whatever the other runs do.
C8_OwnArtifacts ==
    \A s \in Sessions :
        \A k \in 1..Len(ui[s].downloads) :
            ui[s].downloads[k].data =
                IF k = 1 THEN ImpexWorkbook(output_df[s])
                ELSE IssuesWorkbook(output_df[s])

\* The country codes, as the selector's documentation lists them.
CodeOf ==
    ("Colombia" :> "CO") @@ ("Mexico" :> "MX") @@ ("Chile" :> "CL")
    @@ ("Argentina" :> "AR") @@ ("Brasil" :> "BR")

Written(s) == pc[s] \in {"wrote_issues", "offered_impex"} \/ (pc[s] = "done" /\ ui[s].success)

\* C9: every record of the issues table carries the selected country's code
\* followed by "PriceList", the PID, COLOR_ID and CONSUMERPRICE of its
\* flagged row of the feed, and empty CURRENCY_CODE, SCALE, UNIT_FACTOR,
\* PRICE_START and PRICE_END; the impex table holds the same records in the
\* same order without the Issue column.
C9_OutputRecords ==
    \A s \in Sessions :
        /\ Reported(s) =>
              /\ Len(output_df[s]) = Len(inconsistent_prices[s])
              /\ \A j \in 1..Len(output_df[s]) :
                    /\ output_df[s][j]["PRICE_LIST"] =
                          Val(CodeOf[selected_country[s]] \o "PriceList")
                    /\ \A c \in {"PID", "COLOR_ID", "CONSUMERPRICE"} :
                          output_df[s][j][c] = inconsistent_prices[s][j][c]
                    /\ \E i \in 1..Len(df[s].data) :
                          \A c \in {"PID", "COLOR_ID", "CONSUMERPRICE"} :
                              output_df[s][j][c] = df[s].data[i][c]
                    /\ \A c \in PlaceholderColumns : output_df[s][j][c] = Val("")
        /\ (Written(s) /\ Alone(s)) =>
              LET issues == disk[reason_report_path(selected_country[s])]
                  impex == disk[price_impex_path(selected_country[s])]
              IN  /\ issues.columns = OutputColumns
                  /\ impex.columns =
                        <<"PRICE_LIST", "PID", "COLOR_ID", "CONSUMERPRICE",
                          "CURRENCY_CODE", "SCALE", "UNIT_FACTOR", "PRICE_START",
                          "PRICE_END">>
                  /\ Len(issues.data) = Len(output_df[s])
                  /\ Len(impex.data) = Len(issues.data)
                  /\ \A j \in 1..Len(issues.data) :
                        /\ \A c \in {"PRICE_LIST", "PID", "COLOR_ID",
                                      "CONSUMERPRICE", "Issue"} :
                              issues.data[j][c] = output_df[s][j][c]
                        /\ \A c \in PlaceholderColumns : issues.data[j][c] = NaN
                        /\ DOMAIN impex.data[j] = DOMAIN issues.data[j] \ {"Issue"}
                        /\ \A c \in DOMAIN impex.data[j] :
                              impex.data[j][c] = issues.data[j][c]

\* Both workbooks of a run for Brasil, with two records of which the second
\* has no price.
C9_Witness ==
    \E s \in Sessions :
        /\ Written(s) /\ Alone(s)
        /\ selected_country[s] = "Brasil"
        /\ Len(disk["BRPriceList_Price_Impex.xlsx"].data) = 2
        /\ disk["BRPriceList_Price_Issues.xlsx"].data[2]["CONSUMERPRICE"] = NaN
        /\ disk["BRPriceList_Price_Issues.xlsx"].data[2]["PRICE_LIST"] = Val("BRPriceList")

\* The rows of the normalized feed with all four approval flags true.
FullyApproved(s) ==
    {i \in 1..Len(df[s].data) : \A c \in approval_columns : df[s].data[i][c]}

\* The file of session s without its rows that lack full approval.
ApprovedOnly(s) ==
    [header |-> file[s].header, rows |-> Filter(file[s].rows, FullyApproved(s))]

====
